---- MODULE Spec2Model ----
(***************************************************************************)
(* Model of the case form script src/CaseFormLogic.js: the customer        *)
(* resolution workflow started by onFormLoad, its two awaited              *)
(* Xrm.WebApi.retrieveRecord calls, the field setters, the form            *)
(* notifications and the quick view poll of setFieldVisibility.            *)
(*                                                                         *)
(* JavaScript runs one synchronous segment at a time: every action below   *)
(* is one such segment (an event handler up to its first pending await,    *)
(* the continuation of an await, or one interval tick).                    *)
(***************************************************************************)
EXTENDS Integers, Sequences, FiniteSets, TLC

\* ------------------------------------------------------------------ bounds

\* Poll ticks one timer may observe with the quick view not yet loaded.
MaxFalseTicks == 2

\* Workflow invocations the form session can hold.
NumInvocations == 2

Invocations == 1..NumInvocations

\* Creation requests the server receives.
NumRequests == 2

Requests == 1..NumRequests

\* Characters of the longest customer identifier whose normalization is checked.
MaxIdLen == 3

\* ------------------------------------------------------------- host values

\* Record identifiers are strings, modelled as sequences of characters.
BracedA1 == <<"{", "A", "1", "}">>
PlainA2 == <<"A", "2">>
BracedA3 == <<"{", "A", "3", "}">>
BracedP1 == <<"{", "P", "1", "}">>

\* The empty string; as _primarycontactid_value it stands for every falsy value.
NoId == <<>>

\* customerid.getValue() returned null.
NullCustomer == [id |-> NoId, entityType |-> "null"]

\* getAttribute("customerid") returned nothing: the attribute is not on the form.
NoCustomerAttribute == [id |-> NoId, entityType |-> "noattribute"]

\* The lookup values customerid can hold: [{ id, entityType }].
CustomerValues ==
    { [id |-> BracedA1, entityType |-> "account"],
      [id |-> PlainA2, entityType |-> "account"],
      [id |-> BracedA3, entityType |-> "account"],
      [id |-> BracedP1, entityType |-> "contact"] }

\* The account table of the remote service: _primarycontactid_value by account id.
PrimaryContactIdValue(accountId) ==
    CASE accountId = <<"A", "1">> -> <<"P", "1">>
      [] accountId = <<"A", "3">> -> <<"P", "2">>
      [] OTHER -> NoId

\* The contact table of the remote service: fullname by contact id.
FullName(contactId) ==
    CASE contactId = <<"P", "1">> -> "Name1"
      [] contactId = <<"P", "2">> -> "Name2"
      [] OTHER -> "Unnamed"

\* The value retrieveContactDetails stores in primarycontactid.
ContactLookup(contactId) ==
    [id |-> contactId, name |-> FullName(contactId), entityType |-> "contact"]

\* primarycontactid holding null.
NullLookup == [id |-> NoId, name |-> "", entityType |-> "null"]

\* A value primarycontactid held before the workflow ran.
EarlierLookup == [id |-> <<"P", "9">>, name |-> "Name9", entityType |-> "contact"]

\* What reading one quick view field can meet: the control cannot be reached
\* (getControl returns null), the control is there but reading its attribute
\* throws, the attribute holds null, or it holds a text (a sequence of
\* characters).
FieldStates ==
    { [kind |-> "inaccessible", text |-> <<>>],
      [kind |-> "unreadable", text |-> <<>>],
      [kind |-> "null", text |-> <<>>],
      [kind |-> "text", text |-> <<>>],
      [kind |-> "text", text |-> <<" ">>],
      [kind |-> "text", text |-> <<"e">>],
      [kind |-> "text", text |-> <<" ", "e", " ">>] }

\* No read pass has happened yet.
Unread == [kind |-> "unread", text |-> <<>>]

NotificationIds ==
    {"ErrorNotification", "AccountError", "ContactError", "NoPrimaryContact",
     "NoContactDetails"}

\* A request the plugin has not run for yet.
NoExecution ==
    [state |-> "idle", error |-> "", queries |-> 0,
     target |-> [kind |-> "none", logicalName |-> "", customerid |-> [kind |-> "missing", id |-> ""]]]

VARIABLES
    customer,          \* customerid: NoCustomerAttribute, NullCustomer or a lookup value
    controlExists,     \* getControl("primarycontactid") returns a control
    attributeExists,   \* getAttribute("primarycontactid") returns an attribute
    quickViewExists,   \* ui.quickForms.get("ContactDetailsQuickView") returns a control
    contactValue,      \* value of primarycontactid
    contactVisible,    \* visibility of the primarycontactid control
    requiredLevel,     \* requirement level of primarycontactid
    notifications,     \* identifiers of the active form notifications
    quickView,         \* the quick view: its visibility, its fields, the last values read
    isLoaded,          \* quickViewControl.isLoaded()
    timers,            \* the interval timers created by waitForQuickViewLoad
    pc,                \* where each invocation of onFormLoad stands
    pending,           \* the identifier of the remote call an invocation awaits
    branch,            \* the branch of the workflow each invocation took
    calls,             \* the remote calls each invocation issued, in order
    log,               \* the form operations each invocation performed, in order
    incidents,         \* server: the rows of the incident table
    exec               \* server: the executions of the case plugin, one per request

vars == <<customer, controlExists, attributeExists, quickViewExists, contactValue,
          contactVisible, requiredLevel, notifications, quickView, isLoaded,
          timers, pc, pending, branch, calls, log, incidents, exec>>

\* The server side, which the form script never touches.
server == <<incidents, exec>>

layout == <<controlExists, attributeExists, quickViewExists>>

\* The form side, which the case plugin never touches.
form == <<customer, layout, contactValue, contactVisible, requiredLevel, notifications,
          quickView, isLoaded, timers, pc, pending, branch, calls, log>>

\* ------------------------------------------------------- the session state

\* The part of the session the workflow's synchronous code reads and writes,
\* as one record that the operators below thread through a segment.
Session ==
    [contactValue |-> contactValue, contactVisible |-> contactVisible,
     requiredLevel |-> requiredLevel, notifications |-> notifications,
     timers |-> timers, calls |-> calls, log |-> log]

\* The session after a segment.
Commit(s) ==
    /\ contactValue' = s.contactValue
    /\ contactVisible' = s.contactVisible
    /\ requiredLevel' = s.requiredLevel
    /\ notifications' = s.notifications
    /\ timers' = s.timers
    /\ calls' = s.calls
    /\ log' = s.log

\* Invocation i performed form operation op.
Logged(s, i, op) == [s EXCEPT !.log[i] = Append(@, op)]

\* id.replace(/[{}]/, ""), without the g flag: only the first bracket goes.
RECURSIVE StripBraces_First(_)
StripBraces_First(id) ==
    IF id = <<>> THEN <<>>
    ELSE IF Head(id) \in {"{", "}"} THEN Tail(id)
    ELSE <<Head(id)>> \o StripBraces_First(Tail(id))

\* customerData.id.replace(/[{}]/g, "")
StripBraces(id) == SelectSeq(id, LAMBDA c : c \notin {"{", "}"})

\* formContext.ui.setFormNotification(message, level, id): upsert by id.
setFormNotification(s, i, id) ==
    Logged([s EXCEPT !.notifications = @ \cup {id}], i, id)

\* Xrm.WebApi.retrieveRecord(entity, id, options): the call is issued.
retrieveRecord(s, i, entity, id) ==
    [s EXCEPT !.calls[i] = Append(@, [entity |-> entity, id |-> id])]

\* A timer as setInterval creates it, owned by invocation i.
NewTimer(i) == [owner |-> i, active |-> TRUE, falseTicks |-> 0, reads |-> 0, cancels |-> 0]

\* waitForQuickViewLoad that starts no timer while an earlier one still runs.
waitForQuickViewLoad_Reuse(s, i) ==
    IF \E t \in DOMAIN s.timers : s.timers[t].active
    THEN s
    ELSE [s EXCEPT !.timers = Append(@, NewTimer(i))]

\* waitForQuickViewLoad that looks at the quick view at once: when it is
\* loaded the callback runs inside the call and no timer is left running.
waitForQuickViewLoad_Immediate(s, i) ==
    [s EXCEPT !.timers = Append(@, IF isLoaded
                                   THEN [NewTimer(i) EXCEPT !.active = FALSE, !.reads = 1,
                                                            !.cancels = 1]
                                   ELSE NewTimer(i))]

\* waitForQuickViewLoad: setInterval(..., 500) registers a new timer.
waitForQuickViewLoad(s, i) == [s EXCEPT !.timers = Append(@, NewTimer(i))]

\* setFieldVisibility: without the quick view it returns, with it it starts a poll.
setFieldVisibility(s, i) ==
    IF quickViewExists
    THEN waitForQuickViewLoad(Logged(s, i, "setFieldVisibility"), i)
    ELSE Logged(s, i, "setFieldVisibility")

\* ensureContactFieldVisibility: setVisible(true) when the control exists.
ensureContactFieldVisibility(s, i) ==
    IF controlExists
    THEN Logged([s EXCEPT !.contactVisible = TRUE], i, "setVisible")
    ELSE s

\* setContactFieldRequirement: setRequiredLevel(level) when the attribute exists.
setContactFieldRequirement(s, i, level) ==
    IF attributeExists
    THEN Logged([s EXCEPT !.requiredLevel = level], i, "setRequiredLevel")
    ELSE s

\* resetContactField with the setValue(null) left out.
resetContactField_NoClear(s, i) == s

\* resetContactField: setValue(null) when the attribute exists.
resetContactField(s, i) ==
    IF attributeExists
    THEN Logged([s EXCEPT !.contactValue = NullLookup], i, "setValue")
    ELSE s

\* handleNoCustomerSelected: the poll is started, then the contact is cleared.
handleNoCustomerSelected(s, i) == resetContactField(setFieldVisibility(s, i), i)

\* handleContactCustomer with the call of setContactFieldRequirement left out.
handleContactCustomer_KeepsRequirement(s, i) ==
    IF controlExists
    THEN Logged([s EXCEPT !.contactVisible = FALSE], i, "setVisible")
    ELSE s

\* handleContactCustomer that also clears the stored contact and the
\* notifications of the account branch.
handleContactCustomer_Clears(s, i) ==
    LET hidden == setContactFieldRequirement(
                      IF controlExists
                      THEN Logged([s EXCEPT !.contactVisible = FALSE], i, "setVisible")
                      ELSE s,
                      i, "none")
    IN  [hidden EXCEPT !.contactValue = NullLookup,
                       !.notifications = @ \ {"NoPrimaryContact", "AccountError", "ContactError"}]

\* handleContactCustomer: hide the control, make the attribute optional.
handleContactCustomer(s, i) ==
    setContactFieldRequirement(
        IF controlExists
        THEN Logged([s EXCEPT !.contactVisible = FALSE], i, "setVisible")
        ELSE s,
        i, "none")

\* handleNoPrimaryContact with the call of setFieldVisibility left out.
handleNoPrimaryContact_NoPoll(s, i) == setFormNotification(s, i, "NoPrimaryContact")

\* handleNoPrimaryContact: the warning, then the poll.
handleNoPrimaryContact(s, i) ==
    setFieldVisibility(setFormNotification(s, i, "NoPrimaryContact"), i)

\* handleAccountError: the error, then the poll.
handleAccountError(s, i) ==
    setFieldVisibility(setFormNotification(s, i, "AccountError"), i)

\* retrieveContactDetails storing the lookup without the record's fullname.
retrieveContactDetailsResolved_NoName(s, i, contactId) ==
    IF attributeExists
    THEN Logged([setFieldVisibility(s, i) EXCEPT
                    !.contactValue = [ContactLookup(contactId) EXCEPT !.name = ""]],
                i, "setValue")
    ELSE setFieldVisibility(
             setFormNotification(setFieldVisibility(s, i), i, "ContactError"), i)

\* retrieveContactDetails with a guard against stale responses: the record is
\* dropped when customerid no longer holds the account the lookup was made for.
retrieveContactDetailsResolved_DropsStale(s, i, contactId) ==
    IF StripBraces(customer.id) # s.calls[i][1].id
    THEN s
    ELSE IF attributeExists
    THEN Logged([setFieldVisibility(s, i) EXCEPT !.contactValue = ContactLookup(contactId)],
                i, "setValue")
    ELSE setFieldVisibility(
             setFormNotification(setFieldVisibility(s, i), i, "ContactError"), i)

\* retrieveContactDetails after its await resolved with the contact record:
\* the poll is started, then primarycontactid is set. getAttribute returns null
\* when the attribute is not on the form, setValue on it throws a TypeError and
\* the catch block of retrieveContactDetails runs.
retrieveContactDetailsResolved(s, i, contactId) ==
    IF attributeExists
    THEN Logged([setFieldVisibility(s, i) EXCEPT !.contactValue = ContactLookup(contactId)],
                i, "setValue")
    ELSE setFieldVisibility(
             setFormNotification(setFieldVisibility(s, i), i, "ContactError"), i)

\* retrieveContactDetails whose catch block calls retrieveRecord once more.
retrieveContactDetailsRejected_Retry(s, i) ==
    setFieldVisibility(
        setFormNotification(retrieveRecord(s, i, "contact", NoId), i, "ContactError"), i)

\* retrieveContactDetails after its await rejected: the error, then the poll.
retrieveContactDetailsRejected(s, i) ==
    setFieldVisibility(setFormNotification(s, i, "ContactError"), i)

\* handleAccountCustomer issuing the contact lookup whatever the account holds.
handleAccountCustomerResolved_Eager(s, i, primaryContactId) ==
    retrieveRecord(setContactFieldRequirement(ensureContactFieldVisibility(s, i), i, "required"),
                   i, "contact", primaryContactId)

\* handleAccountCustomer that drops the response when customerid no longer
\* holds an account: the control is left alone and the invocation's remaining
\* steps run as before.
handleAccountCustomerResolved_IfStillAccount(s, i, primaryContactId) ==
    LET shown == IF customer.entityType = "account"
                 THEN setContactFieldRequirement(ensureContactFieldVisibility(s, i), i, "required")
                 ELSE s
    IN  IF primaryContactId # NoId
        THEN retrieveRecord(shown, i, "contact", primaryContactId)
        ELSE handleNoPrimaryContact(shown, i)

\* handleAccountCustomer that makes the attribute required without showing
\* the control.
handleAccountCustomerResolved_RequiresOnly(s, i, primaryContactId) ==
    LET required == setContactFieldRequirement(s, i, "required")
    IN  IF primaryContactId # NoId
        THEN retrieveRecord(required, i, "contact", primaryContactId)
        ELSE handleNoPrimaryContact(required, i)

\* handleAccountCustomer after its await resolved with the account record.
\* The result is the session and the contact identifier now awaited (NoId: none).
handleAccountCustomerResolved(s, i, primaryContactId) ==
    LET shown == setContactFieldRequirement(ensureContactFieldVisibility(s, i), i, "required")
    IN  IF primaryContactId # NoId
        THEN retrieveRecord(shown, i, "contact", primaryContactId)
        ELSE handleNoPrimaryContact(shown, i)

\* ------------------------------------------------------ the quick view read

RECURSIVE TrimStart(_)
TrimStart(text) ==
    IF text # <<>> /\ Head(text) = " " THEN TrimStart(Tail(text)) ELSE text

RECURSIVE TrimEnd(_)
TrimEnd(text) ==
    IF text # <<>> /\ text[Len(text)] = " "
    THEN TrimEnd(SubSeq(text, 1, Len(text) - 1))
    ELSE text

\* String.prototype.trim
Trim(text) == TrimEnd(TrimStart(text))

\* getFieldValue with the call of trim left out.
getFieldValue_NoTrim(field) ==
    IF field.kind = "text" THEN field.text ELSE <<>>

\* getFieldValue: the trimmed text, or null (here the empty sequence) when the
\* field cannot be reached or read, holds null, or is empty after trimming.
getFieldValue(field) ==
    IF field.kind = "text" THEN Trim(field.text) ELSE <<>>

\* updateFieldVisibility: setVisible(!!value); a field whose control cannot be
\* reached throws, which is caught, and keeps the visibility it had.
updateFieldVisibility(visibleBefore, field, value) ==
    IF field.kind = "inaccessible" THEN visibleBefore ELSE value # <<>>

\* updateFormNotification clearing every notification when details are shown.
updateFormNotification_ClearsAll(active, shouldHideQuickView) ==
    IF shouldHideQuickView
    THEN active \cup {"NoContactDetails"}
    ELSE {}

\* updateFormNotification: set NoContactDetails or clear it.
updateFormNotification(active, shouldHideQuickView) ==
    IF shouldHideQuickView
    THEN active \cup {"NoContactDetails"}
    ELSE active \ {"NoContactDetails"}

\* The callback setFieldVisibility hands to waitForQuickViewLoad: one read pass
\* that meets the fields in the states emailField and phoneField.
ReadPass(emailField, phoneField) ==
    LET email == getFieldValue(emailField)
        phone == getFieldValue(phoneField)
        shouldHideQuickView == email = <<>> /\ phone = <<>>
    IN  /\ quickView' =
              [visible |-> ~shouldHideQuickView,
               emailVisible |-> updateFieldVisibility(quickView.emailVisible, emailField, email),
               phoneVisible |-> updateFieldVisibility(quickView.phoneVisible, phoneField, phone),
               email |-> emailField,
               phone |-> phoneField]
        /\ notifications' = updateFormNotification(notifications, shouldHideQuickView)

\* The tick with clearInterval left out: the callback runs, the timer stays.
Cancelled_NoClearInterval(timer) == [timer EXCEPT !.reads = @ + 1]

\* clearInterval(waitForLoad) followed by callback(), as the timer records them.
Cancelled(timer) ==
    [timer EXCEPT !.active = FALSE, !.cancels = @ + 1, !.reads = @ + 1]

\* ------------------------------------------------------------------ actions

Init ==
    /\ customer \in {NoCustomerAttribute, NullCustomer} \cup CustomerValues
    /\ controlExists \in BOOLEAN
    /\ attributeExists \in BOOLEAN
    /\ quickViewExists \in BOOLEAN
    /\ contactValue \in {NullLookup, EarlierLookup}
    /\ contactVisible \in BOOLEAN
    /\ requiredLevel \in {"none", "required"}
    /\ notifications = {}
    /\ quickView = [visible |-> TRUE, emailVisible |-> TRUE, phoneVisible |-> TRUE,
                    email |-> Unread, phone |-> Unread]
    /\ isLoaded = FALSE
    /\ timers = <<>>
    /\ pc = [i \in Invocations |-> "idle"]
    /\ pending = [i \in Invocations |-> NoId]
    /\ branch = [i \in Invocations |-> "none"]
    /\ calls = [i \in Invocations |-> <<>>]
    /\ log = [i \in Invocations |-> <<>>]
    /\ incidents = <<>>
    /\ exec = [p \in Requests |-> NoExecution]

\* The actions of onFormLoad take the invocation i and the value c that
\* customerid holds when the handler runs.

\* onFormLoad when executionContext.getFormContext() throws: the catch block
\* runs handleFormLoadError, whose notifyUserOfError calls getFormContext()
\* again, outside any try. If that call throws too, the promise of onFormLoad
\* is rejected; otherwise ErrorNotification is set.
onFormLoadContextFailure(i, c) ==
    /\ pc[i] = "idle"
    /\ \E throwsAgain \in BOOLEAN :
          IF throwsAgain
          THEN /\ pc' = [pc EXCEPT ![i] = "rejected"]
               /\ Commit(Logged(Session, i, "getFormContext throws"))
          ELSE /\ pc' = [pc EXCEPT ![i] = "done"]
               /\ Commit(setFormNotification(Session, i, "ErrorNotification"))
    /\ branch' = [branch EXCEPT ![i] = "contextFailure"]
    /\ customer' = c
    /\ UNCHANGED <<server, layout, quickView, isLoaded, pending>>

\* onFormLoad, handleCustomerField with no customerid attribute or no value.
onFormLoadNoCustomer(i, c) ==
    /\ pc[i] = "idle"
    /\ c.entityType \in {"noattribute", "null"}
    /\ pc' = [pc EXCEPT ![i] = "done"]
    /\ branch' = [branch EXCEPT ![i] = "noCustomer"]
    /\ Commit(handleNoCustomerSelected(Session, i))
    /\ customer' = c
    /\ UNCHANGED <<server, layout, quickView, isLoaded, pending>>

\* onFormLoad, handleCustomerType with a contact as the customer.
onFormLoadContact(i, c) ==
    /\ pc[i] = "idle"
    /\ c.entityType = "contact"
    /\ pc' = [pc EXCEPT ![i] = "done"]
    /\ branch' = [branch EXCEPT ![i] = "contact"]
    /\ Commit(handleContactCustomer(Session, i))
    /\ customer' = c
    /\ UNCHANGED <<server, layout, quickView, isLoaded, pending>>

\* onFormLoad, handleCustomerType with an account as the customer:
\* handleAccountCustomer issues the account lookup and awaits it.
onFormLoadAccount(i, c) ==
    /\ pc[i] = "idle"
    /\ c.entityType = "account"
    /\ pc' = [pc EXCEPT ![i] = "awaitAccount"]
    /\ pending' = [pending EXCEPT ![i] = StripBraces(c.id)]
    /\ branch' = [branch EXCEPT ![i] = "account"]
    /\ Commit(retrieveRecord(Session, i, "account", StripBraces(c.id)))
    /\ customer' = c
    /\ UNCHANGED <<server, layout, quickView, isLoaded>>

\* The account lookup resolves.
AccountResolved(i) ==
    /\ pc[i] = "awaitAccount"
    /\ LET primaryContactId == PrimaryContactIdValue(pending[i])
       IN  /\ pc' = [pc EXCEPT ![i] = IF primaryContactId # NoId THEN "awaitContact" ELSE "done"]
           /\ pending' = [pending EXCEPT ![i] = primaryContactId]
           /\ branch' = [branch EXCEPT ![i] =
                  IF primaryContactId # NoId THEN "primaryContact" ELSE "noPrimaryContact"]
           /\ Commit(handleAccountCustomerResolved(Session, i, primaryContactId))
    /\ UNCHANGED <<server, customer, layout, quickView, isLoaded>>

\* The account lookup rejects: the catch block of handleAccountCustomer.
AccountRejected(i) ==
    /\ pc[i] = "awaitAccount"
    /\ pc' = [pc EXCEPT ![i] = "done"]
    /\ pending' = [pending EXCEPT ![i] = NoId]
    /\ branch' = [branch EXCEPT ![i] = "accountRejected"]
    /\ Commit(handleAccountError(Session, i))
    /\ UNCHANGED <<server, customer, layout, quickView, isLoaded>>

\* The contact lookup resolves.
ContactResolved(i) ==
    /\ pc[i] = "awaitContact"
    /\ pc' = [pc EXCEPT ![i] = "done"]
    /\ pending' = [pending EXCEPT ![i] = NoId]
    /\ branch' = [branch EXCEPT ![i] = "contactResolved"]
    /\ Commit(retrieveContactDetailsResolved(Session, i, pending[i]))
    /\ UNCHANGED <<server, customer, layout, quickView, isLoaded>>

\* The contact lookup rejects: the catch block of retrieveContactDetails.
ContactRejected(i) ==
    /\ pc[i] = "awaitContact"
    /\ pc' = [pc EXCEPT ![i] = "done"]
    /\ pending' = [pending EXCEPT ![i] = NoId]
    /\ branch' = [branch EXCEPT ![i] = "contactRejected"]
    /\ Commit(retrieveContactDetailsRejected(Session, i))
    /\ UNCHANGED <<server, customer, layout, quickView, isLoaded>>

\* A tick with a timeout: after MaxFalseTicks ticks that found the quick view
\* not loaded, the next one clears the timer and makes no read pass.
TickNotLoaded_GivesUp(t) ==
    /\ timers[t].active
    /\ ~isLoaded
    /\ timers' = [timers EXCEPT ![t] =
                      IF @.falseTicks < MaxFalseTicks
                      THEN [@ EXCEPT !.falseTicks = @ + 1]
                      ELSE [@ EXCEPT !.active = FALSE, !.cancels = @ + 1]]
    /\ UNCHANGED <<server, customer, layout, contactValue, contactVisible, requiredLevel,
                   notifications, quickView, isLoaded, pc, pending, branch, calls, log>>

\* One tick of timer t that finds the quick view not loaded: nothing happens.
TickNotLoaded(t) ==
    /\ timers[t].active
    /\ ~isLoaded
    /\ timers[t].falseTicks < MaxFalseTicks
    /\ timers' = [timers EXCEPT ![t].falseTicks = @ + 1]
    /\ UNCHANGED <<server, customer, layout, contactValue, contactVisible, requiredLevel,
                   notifications, quickView, isLoaded, pc, pending, branch, calls, log>>

\* One tick of timer t that finds the quick view loaded: the timer is cleared
\* and the callback makes its read pass.
TickLoaded(t) ==
    /\ timers[t].active
    /\ isLoaded
    /\ timers' = [timers EXCEPT ![t] = Cancelled(@)]
    /\ \E emailField \in FieldStates, phoneField \in FieldStates :
          ReadPass(emailField, phoneField)
    /\ UNCHANGED <<server, customer, layout, contactValue, contactVisible, requiredLevel,
                   isLoaded, pc, pending, branch, calls, log>>

\* TickNotLoaded without the count of false ticks, for sessions that hold
\* many timers: the tick finds the quick view not loaded and changes nothing.
TickNotLoadedUncounted(t) ==
    /\ timers[t].active
    /\ ~isLoaded
    /\ UNCHANGED vars

\* The field states the read passes of sessions with many timers meet: a
\* field holding null and a field holding text.
FewFieldStates == { [kind |-> "null", text |-> <<>>], [kind |-> "text", text |-> <<"e">>] }

\* TickLoaded with the fields drawn from FewFieldStates.
TickLoadedFew(t) ==
    /\ timers[t].active
    /\ isLoaded
    /\ timers' = [timers EXCEPT ![t] = Cancelled(@)]
    /\ \E emailField \in FewFieldStates, phoneField \in FewFieldStates :
          ReadPass(emailField, phoneField)
    /\ UNCHANGED <<server, customer, layout, contactValue, contactVisible, requiredLevel,
                   isLoaded, pc, pending, branch, calls, log>>

\* The host finishes loading the quick view.
QuickViewLoads ==
    /\ ~isLoaded
    /\ isLoaded' = TRUE
    /\ UNCHANGED <<server, customer, layout, contactValue, contactVisible, requiredLevel,
                   notifications, quickView, timers, pc, pending, branch, calls, log>>

\* The host starts loading the quick view again.
QuickViewReloads ==
    /\ isLoaded
    /\ isLoaded' = FALSE
    /\ UNCHANGED <<server, customer, layout, contactValue, contactVisible, requiredLevel,
                   notifications, quickView, timers, pc, pending, branch, calls, log>>

\* The form load event: the one invocation of onFormLoad.
FormLoad ==
    \/ onFormLoadContextFailure(1, customer)
    \/ onFormLoadNoCustomer(1, customer)
    \/ onFormLoadContact(1, customer)
    \/ onFormLoadAccount(1, customer)

Next ==
    \/ FormLoad
    \/ \E i \in Invocations : AccountResolved(i)
    \/ \E i \in Invocations : AccountRejected(i)
    \/ \E i \in Invocations : ContactResolved(i)
    \/ \E i \in Invocations : ContactRejected(i)
    \/ \E t \in DOMAIN timers : TickNotLoaded(t)
    \/ \E t \in DOMAIN timers : TickLoaded(t)
    \/ QuickViewLoads
    \/ QuickViewReloads

Spec == Init /\ [][Next]_vars


\* The customer change event: the user puts another value into customerid and
\* the handler, the same onFormLoad, runs as the next invocation while earlier
\* invocations may still await their lookups.
CustomerChange ==
    \E i \in Invocations \ {1}, c \in ({NullCustomer} \cup CustomerValues) \ {customer} :
        /\ customer # NoCustomerAttribute
        /\ \A j \in 1..(i - 1) : pc[j] # "idle"
        /\ \/ onFormLoadContextFailure(i, c)
           \/ onFormLoadNoCustomer(i, c)
           \/ onFormLoadContact(i, c)
           \/ onFormLoadAccount(i, c)

NextOverlap ==
    \/ FormLoad
    \/ CustomerChange
    \/ \E i \in Invocations : AccountResolved(i)
    \/ \E i \in Invocations : AccountRejected(i)
    \/ \E i \in Invocations : ContactResolved(i)
    \/ \E i \in Invocations : ContactRejected(i)
    \/ \E t \in DOMAIN timers : TickNotLoadedUncounted(t)
    \/ \E t \in DOMAIN timers : TickLoadedFew(t)
    \/ QuickViewLoads
    \/ QuickViewReloads

\* The sessions of Init whose form held a primary contact before the load.
InitOverlap == Init /\ contactValue = EarlierLookup

\* The form load followed by customer changes, with overlapping invocations.
SpecOverlap == InitOverlap /\ [][NextOverlap]_vars

\* The timers the invocations can start: setFieldVisibility runs at most twice
\* in an invocation.
TimerIds == 1..(NumInvocations + NumInvocations)

\* setInterval fires timer t again: one tick of it, whatever it finds.
TimerTicks(t) ==
    /\ t \in DOMAIN timers
    /\ (TickNotLoaded(t) \/ TickLoadedFew(t))

\* The form load with its lookups, the ticks counted, and the quick view
\* loading and reloading.
NextFair ==
    \/ FormLoad
    \/ \E i \in Invocations : AccountResolved(i)
    \/ \E i \in Invocations : AccountRejected(i)
    \/ \E i \in Invocations : ContactResolved(i)
    \/ \E i \in Invocations : ContactRejected(i)
    \/ \E t \in DOMAIN timers : TickNotLoaded(t)
    \/ \E t \in DOMAIN timers : TickLoadedFew(t)
    \/ QuickViewLoads
    \/ QuickViewReloads

\* The form session with setInterval's schedule: a timer that is not cleared
\* keeps firing every 500 ms.
SpecFair ==
    /\ InitOverlap
    /\ [][NextFair]_vars
    /\ \A t \in TimerIds : WF_vars(TimerTicks(t))

\* The characters a customer identifier is made of here: the two brackets
\* and two others.
IdChars == {"{", "}", "A", "1"}

\* Every identifier of at most MaxIdLen characters.
Ids == UNION { [1..n -> IdChars] : n \in 0..MaxIdLen }

\* A form whose customerid holds an account with any of these identifiers.
InitNormalize ==
    /\ customer \in { [id |-> id, entityType |-> "account"] : id \in Ids }
    /\ controlExists \in BOOLEAN
    /\ attributeExists = TRUE
    /\ quickViewExists = TRUE
    /\ contactValue = NullLookup
    /\ contactVisible = TRUE
    /\ requiredLevel = "none"
    /\ notifications = {}
    /\ quickView = [visible |-> TRUE, emailVisible |-> TRUE, phoneVisible |-> TRUE,
                    email |-> Unread, phone |-> Unread]
    /\ isLoaded = FALSE
    /\ timers = <<>>
    /\ pc = [i \in Invocations |-> "idle"]
    /\ pending = [i \in Invocations |-> NoId]
    /\ branch = [i \in Invocations |-> "none"]
    /\ calls = [i \in Invocations |-> <<>>]
    /\ log = [i \in Invocations |-> <<>>]
    /\ incidents = <<>>
    /\ exec = [p \in Requests |-> NoExecution]

\* The form load for an account and the end of its account lookup.
NextNormalize ==
    \/ onFormLoadAccount(1, customer)
    \/ \E i \in Invocations : AccountResolved(i)
    \/ \E i \in Invocations : AccountRejected(i)

SpecNormalize == InitNormalize /\ [][NextNormalize]_vars

\* ------------------------------------------------------- the case plugin

\* The customers cases are created for.
CustomerGuids == {"c1", "c2"}

\* statecode of an active case.
ActiveState == 0

\* statecode of a case that is no longer active: the query only tells Active
\* from any other state code.
ResolvedState == ActiveState + 1

\* What the "customerid" attribute of a target entity can be: not there, there
\* but no EntityReference, or a reference to a customer.
CustomerIdAttributes ==
    { [kind |-> "missing", id |-> ""], [kind |-> "notReference", id |-> ""] }
    \cup { [kind |-> "reference", id |-> c] : c \in CustomerGuids }

\* What InputParameters["Target"] can be: not there, there but no Entity, an
\* entity of another table, or an incident.
Targets ==
    { [kind |-> "none", logicalName |-> "", customerid |-> [kind |-> "missing", id |-> ""]],
      [kind |-> "notEntity", logicalName |-> "incident",
       customerid |-> [kind |-> "missing", id |-> ""]],
      [kind |-> "entity", logicalName |-> "account",
       customerid |-> [kind |-> "missing", id |-> ""]] }
    \cup { [kind |-> "entity", logicalName |-> "incident", customerid |-> a] :
             a \in CustomerIdAttributes }

\* IsValidContext: the target is there, is an Entity and is an incident.
IsValidContext(target) ==
    target.kind = "entity" /\ target.logicalName = "incident"

\* ValidateCustomerId passes: customerid is there and is an EntityReference.
ValidateCustomerId(entity) == entity.customerid.kind = "reference"

\* CreateActiveCasesQuery without the statecode condition.
CreateActiveCasesQuery_AnyState(customerId) ==
    [customerid |-> {customerId}, statecode |-> {ActiveState, ResolvedState}]

\* CreateActiveCasesQuery: incidents with this customerid and statecode 0; the
\* query as the set of values each condition lets through.
CreateActiveCasesQuery(customerId) ==
    [customerid |-> {customerId}, statecode |-> {ActiveState}]

\* service.RetrieveMultiple(query): the rows of the table that meet the query.
RetrieveMultiple(table, query) ==
    SelectSeq(table, LAMBDA row : row.customerid \in query.customerid
                                  /\ row.statecode \in query.statecode)

\* HasActiveCases: results.Entities.Count > 0.
HasActiveCases(table, customerId) ==
    Len(RetrieveMultiple(table, CreateActiveCasesQuery(customerId))) > 0

\* ExecutePlugin on a target, reading the table as it is now: what the plugin
\* does with the request.
ExecutePlugin(target, table) ==
    IF ~IsValidContext(target)
    THEN [state |-> "admitted", error |-> "", queries |-> 0, target |-> target]
    ELSE IF ~ValidateCustomerId(target)
    THEN [state |-> "failed", error |-> "The Customer ID is required to create a case.",
          queries |-> 0, target |-> target]
    ELSE IF HasActiveCases(table, target.customerid.id)
    THEN [state |-> "failed",
          error |-> "A case for this customer is already active. Unable to create Case.",
          queries |-> 1, target |-> target]
    ELSE [state |-> "admitted", error |-> "", queries |-> 1, target |-> target]

\* The plugin runs for request p, before the platform's create operation.
Execute(p) ==
    /\ exec[p].state = "idle"
    /\ \E target \in Targets : exec' = [exec EXCEPT ![p] = ExecutePlugin(target, incidents)]
    /\ UNCHANGED <<incidents, form>>

\* The platform's create operation of an admitted request: an incident is
\* stored as an active case of its customer; a record of another table leaves
\* the incident table alone.
Create(p) ==
    /\ exec[p].state = "admitted"
    /\ exec' = [exec EXCEPT ![p].state = "created"]
    /\ incidents' =
           IF IsValidContext(exec[p].target)
           THEN Append(incidents, [customerid |-> exec[p].target.customerid.id,
                                   statecode |-> ActiveState])
           ELSE incidents
    /\ UNCHANGED form

\* A user resolves the active case in row k.
Resolve(k) ==
    /\ incidents[k].statecode = ActiveState
    /\ incidents' = [incidents EXCEPT ![k].statecode = ResolvedState]
    /\ UNCHANGED <<exec, form>>

\* The server before the requests: no customer has more than one active case.
\* The form is not touched while the server is looked at.
InitPlugin ==
    /\ incidents \in
           { <<>>,
             << [customerid |-> "c1", statecode |-> ActiveState] >>,
             << [customerid |-> "c1", statecode |-> ResolvedState] >>,
             << [customerid |-> "c1", statecode |-> ResolvedState],
                [customerid |-> "c2", statecode |-> ActiveState] >> }
    /\ exec = [p \in Requests |-> NoExecution]
    /\ customer = NullCustomer
    /\ controlExists = TRUE
    /\ attributeExists = TRUE
    /\ quickViewExists = TRUE
    /\ contactValue = NullLookup
    /\ contactVisible = TRUE
    /\ requiredLevel = "none"
    /\ notifications = {}
    /\ quickView = [visible |-> TRUE, emailVisible |-> TRUE, phoneVisible |-> TRUE,
                    email |-> Unread, phone |-> Unread]
    /\ isLoaded = FALSE
    /\ timers = <<>>
    /\ pc = [i \in Invocations |-> "idle"]
    /\ pending = [i \in Invocations |-> NoId]
    /\ branch = [i \in Invocations |-> "none"]
    /\ calls = [i \in Invocations |-> <<>>]
    /\ log = [i \in Invocations |-> <<>>]

NextPlugin ==
    \/ \E p \in Requests : Execute(p)
    \/ \E p \in Requests : Create(p)
    \/ \E k \in DOMAIN incidents : Resolve(k)

\* The case plugin on the server: requests whose plugin runs and create
\* operations may overlap.
SpecPlugin == InitPlugin /\ [][NextPlugin]_vars

\* ------------------------------------------------------------------ claims

\* Invocation i has terminated on branch b.
Ended(i, b) == pc[i] = "done" /\ branch[i] = b

\* The operations of ops, in order, that are among the names in kinds.
Only(ops, kinds) == SelectSeq(ops, LAMBDA op : op \in kinds)

\* The number of times invocation i called setFieldVisibility.
Polls(i) == Len(Only(log[i], {"setFieldVisibility"}))

\* The timers invocation i started.
TimersOf(i) == {t \in DOMAIN timers : timers[t].owner = i}

\* The writes to the primary contact's value, visibility and requirement level.
FieldWrites == {"setValue", "setVisible", "setRequiredLevel"}

\* The form shows the primary contact and requires it, as far as the control
\* and the attribute are on the form.
VisibleAndRequired ==
    /\ controlExists => contactVisible
    /\ attributeExists => requiredLevel = "required"

\* C1: an invocation for an account whose two lookups both resolve issued
\* exactly two remote calls, the account lookup for the customer's identifier
\* and then the contact lookup for the account's primary contact, and ends with
\* primarycontactid holding that contact's id and fullname as a contact lookup.
C1_AccountWithPrimaryContact ==
    \A i \in Invocations :
        Ended(i, "contactResolved") =>
            LET accountId == StripBraces(customer.id)
                contactId == PrimaryContactIdValue(accountId)
            IN  /\ customer.entityType = "account"
                /\ calls[i] = << [entity |-> "account", id |-> accountId],
                                 [entity |-> "contact", id |-> contactId] >>
                /\ attributeExists =>
                       contactValue = [id |-> contactId, name |-> FullName(contactId),
                                       entityType |-> "contact"]

\* C1 witness: account {A1}, both lookups resolved, P1 stored with its fullname.
C1_Witness ==
    /\ Ended(1, "contactResolved")
    /\ customer.id = BracedA1
    /\ attributeExists
    /\ calls[1] = << [entity |-> "account", id |-> <<"A", "1">>],
                     [entity |-> "contact", id |-> <<"P", "1">>] >>
    /\ contactValue = [id |-> <<"P", "1">>, name |-> "Name1", entityType |-> "contact"]

\* C2: an invocation for an account whose account lookup rejects ends with
\* AccountError active, no contact lookup issued, and the primary contact
\* control visible and required, whatever the control's state was before.
C2_AccountErrorKeepsVisibleRequired ==
    \A i \in Invocations :
        Ended(i, "accountRejected") =>
            /\ "AccountError" \in notifications
            /\ Len(calls[i]) = 1
            /\ calls[i][1].entity = "account"
            /\ VisibleAndRequired

\* C3: on every terminal branch setFieldVisibility is invoked, and no write to
\* the primary contact's value, visibility or requirement level follows it.
C3_SynchronizerLast ==
    \A i \in Invocations :
        pc[i] = "done" /\ branch[i] # "contextFailure" =>
            /\ Polls(i) >= 1
            /\ \A k \in 1..Len(log[i]) :
                   log[i][k] = "setFieldVisibility" =>
                       \A j \in (k + 1)..Len(log[i]) : log[i][j] \notin FieldWrites

\* C4: no invocation of onFormLoad ends rejected; a failure inside it ends with
\* ErrorNotification active.
C4_NeverRejected ==
    \A i \in Invocations :
        /\ pc[i] # "rejected"
        /\ Ended(i, "contextFailure") => "ErrorNotification" \in notifications

\* C5: with the primarycontactid attribute missing and both lookups resolved,
\* no error notification is active when the invocation has terminated.
C5_MissingAttributeIsSilent ==
    \A i \in Invocations :
        Ended(i, "contactResolved") /\ ~attributeExists =>
            notifications \cap {"ContactError", "AccountError", "ErrorNotification"} = {}

\* C6: an invocation for a contact issues no remote call and ends with the
\* primary contact control hidden and its requirement level none.
C6_ContactCustomer ==
    \A i \in Invocations :
        Ended(i, "contact") =>
            /\ calls[i] = <<>>
            /\ controlExists => ~contactVisible
            /\ attributeExists => requiredLevel = "none"

\* C6 witness: a contact customer on a form holding the control and the attribute.
C6_Witness ==
    /\ Ended(1, "contact")
    /\ customer.entityType = "contact"
    /\ log[1] = <<"setVisible", "setRequiredLevel">>
    /\ ~contactVisible
    /\ requiredLevel = "none"

\* C7: an invocation for an account without a primary contact issues the
\* account lookup only, ends with NoPrimaryContact active and the control
\* visible and required, never writes primarycontactid's value, and calls
\* setFieldVisibility once, which starts a poll when the quick view exists.
C7_NoPrimaryContact ==
    \A i \in Invocations :
        Ended(i, "noPrimaryContact") =>
            /\ Len(calls[i]) = 1
            /\ calls[i][1].entity = "account"
            /\ "NoPrimaryContact" \in notifications
            /\ VisibleAndRequired
            /\ Only(log[i], {"setValue"}) = <<>>
            /\ contactValue \in {NullLookup, EarlierLookup}
            /\ Polls(i) = 1
            /\ quickViewExists => Cardinality(TimersOf(i)) = 1

\* C7 witness: account A2, which has no primary contact, on a complete form.
C7_Witness ==
    /\ Ended(1, "noPrimaryContact")
    /\ customer.id = PlainA2
    /\ controlExists /\ attributeExists /\ quickViewExists
    /\ contactValue = EarlierLookup
    /\ Len(timers) = 1

\* C8: an invocation whose account lookup resolves with a primary contact and
\* whose contact lookup rejects ends with ContactError active, the control
\* visible and required, primarycontactid's value never written, one call of
\* setFieldVisibility, and exactly the two lookups issued (no retry).
C8_ContactLookupFails ==
    \A i \in Invocations :
        Ended(i, "contactRejected") =>
            /\ "ContactError" \in notifications
            /\ Len(calls[i]) = 2
            /\ calls[i][1].entity = "account"
            /\ calls[i][2].entity = "contact"
            /\ VisibleAndRequired
            /\ Only(log[i], {"setValue"}) = <<>>
            /\ contactValue \in {NullLookup, EarlierLookup}
            /\ Polls(i) = 1
            /\ quickViewExists => Cardinality(TimersOf(i)) = 1

\* C8 witness: account {A3}, whose contact lookup rejected, on a complete form.
C8_Witness ==
    /\ Ended(1, "contactRejected")
    /\ customer.id = BracedA3
    /\ controlExists /\ attributeExists /\ quickViewExists
    /\ contactValue = EarlierLookup
    /\ "ContactError" \in notifications

\* C9: an invocation that finds no customerid attribute or no customer value
\* issues no remote call, ends with primarycontactid cleared, and calls
\* setFieldVisibility once, which starts a poll when the quick view exists.
C9_NoCustomer ==
    \A i \in Invocations :
        Ended(i, "noCustomer") =>
            /\ customer \in {NoCustomerAttribute, NullCustomer}
            /\ calls[i] = <<>>
            /\ attributeExists => contactValue = NullLookup
            /\ Polls(i) = 1
            /\ quickViewExists => Cardinality(TimersOf(i)) = 1

\* C9 witness: no customerid attribute; the poll was started, then the value cleared.
C9_Witness ==
    /\ Ended(1, "noCustomer")
    /\ customer = NoCustomerAttribute
    /\ attributeExists /\ quickViewExists
    /\ contactValue = NullLookup
    /\ log[1] = <<"setFieldVisibility", "setValue">>

\* What one step may do to a timer that exists before and after it.
TimerStep(before, after) ==
    \/ after = before
    \/ /\ before.active /\ ~isLoaded
       /\ after = [before EXCEPT !.falseTicks = @ + 1]
    \/ /\ before.active /\ isLoaded
       /\ before.reads = 0 /\ before.cancels = 0
       /\ after = [before EXCEPT !.active = FALSE, !.reads = 1, !.cancels = 1]

\* C10: a timer's tick that finds the quick view not loaded makes no read pass;
\* the first tick that finds it loaded cancels the timer, once, and makes the
\* one read pass; a cancelled timer never ticks again.
C10_PollReadsOnce ==
    [][ \A t \in DOMAIN timers :
            /\ TimerStep(timers[t], timers'[t])
            /\ ~timers[t].active => timers'[t] = timers[t]
            /\ quickView' # quickView =>
                   \E u \in DOMAIN timers :
                       timers[u].active /\ isLoaded /\ ~timers'[u].active ]_vars

\* C10 witness: a timer that ticked MaxFalseTicks times before the quick view
\* loaded, then was cancelled with its one read pass made.
C10_Witness ==
    \E t \in DOMAIN timers :
        /\ timers[t].falseTicks = MaxFalseTicks
        /\ ~timers[t].active
        /\ timers[t].reads = 1
        /\ timers[t].cancels = 1
        /\ quickView.email # Unread

\* A quick view field holds a value: a text with a character that is no space.
Present(field) ==
    /\ field.kind = "text"
    /\ \E k \in 1..Len(field.text) : field.text[k] # " "

\* C11: after a read pass, each child field whose control can be reached is
\* visible exactly when its value is present, the quick view is visible exactly
\* when the email or the phone is present, and NoContactDetails is active
\* exactly when both are absent; null, empty, whitespace-only and unreadable
\* fields all count as absent.
C11_PanelFollowsFields ==
    quickView.email # Unread =>
        /\ quickView.email.kind # "inaccessible" =>
               (quickView.emailVisible <=> Present(quickView.email))
        /\ quickView.phone.kind # "inaccessible" =>
               (quickView.phoneVisible <=> Present(quickView.phone))
        /\ quickView.visible <=> (Present(quickView.email) \/ Present(quickView.phone))
        /\ "NoContactDetails" \in notifications
               <=> (~Present(quickView.email) /\ ~Present(quickView.phone))

\* C11 witness: the read pass met a whitespace-only email and an unreadable
\* phone: both fields and the quick view are hidden, NoContactDetails is active.
C11_Witness ==
    /\ quickView.email = [kind |-> "text", text |-> <<" ">>]
    /\ quickView.phone = [kind |-> "unreadable", text |-> <<>>]
    /\ ~quickView.emailVisible /\ ~quickView.phoneVisible /\ ~quickView.visible
    /\ "NoContactDetails" \in notifications

\* C12: nothing discards a stale response. Whatever customerid holds when the
\* contact lookup of an invocation resolves, the invocation stores that contact
\* in primarycontactid; so the state of C12_Witness is reachable, in which two
\* overlapping invocations have terminated, customerid holds the later account
\* and primarycontactid the primary contact of the earlier one.
C12_StaleResponseOverwrites ==
    [][ \A i \in Invocations :
            (pc[i] = "awaitContact" /\ branch'[i] = "contactResolved" /\ attributeExists)
                => contactValue' = [id |-> pending[i], name |-> FullName(pending[i]),
                                    entityType |-> "contact"] ]_vars

\* C12 witness: the customer was changed from {A1} (primary contact P1) to {A3}
\* (primary contact P2) while the first invocation awaited; both invocations
\* resolved both lookups and have terminated, and primarycontactid holds P1.
C12_Witness ==
    /\ Ended(1, "contactResolved") /\ Ended(2, "contactResolved")
    /\ calls[1][1].id = <<"A", "1">>
    /\ calls[2][1].id = <<"A", "3">>
    /\ customer.id = BracedA3
    /\ contactValue = [id |-> <<"P", "1">>, name |-> "Name1", entityType |-> "contact"]

\* The notifications the workflow sets and never clears.
ErrorIds == {"AccountError", "ContactError", "NoPrimaryContact", "ErrorNotification"}

\* C13: no step clears AccountError, ContactError, NoPrimaryContact or
\* ErrorNotification: once active, each stays active, also through later
\* invocations that succeed and through read passes.
C13_ErrorsStayActive ==
    [][ \A id \in ErrorIds : id \in notifications => id \in notifications' ]_vars

\* C13 witness: the first invocation ended with AccountError; after it the
\* customer was changed, the second invocation stored its contact, and a read
\* pass showed the quick view and left NoContactDetails cleared. AccountError
\* is still active.
C13_Witness ==
    /\ Ended(1, "accountRejected") /\ Ended(2, "contactResolved")
    /\ attributeExists
    /\ contactValue.id = calls[2][2].id
    /\ quickView.visible /\ quickView.email # Unread
    /\ \A t \in DOMAIN timers : ~timers[t].active
    /\ notifications = {"AccountError"}

\* The active cases of customer c in the incident table.
ActiveCases(c) ==
    {k \in DOMAIN incidents : incidents[k].customerid = c /\ incidents[k].statecode = 0}

\* The request of execution e ended as state, with this error, after n queries.
Decided(e, state, error, n) == e.state = state /\ e.error = error /\ e.queries = n

\* C14: the decision the plugin takes for a request, against the incident
\* table as it is when the plugin runs: an incident without a customer
\* reference fails with the customer id error and no query; an incident whose
\* customer has an active case fails with the already active error; any other
\* incident is admitted; a request that is no incident is admitted with no query.
C14_AdmissionDecision ==
    [][ \A p \in Requests :
            (exec[p].state = "idle" /\ exec'[p].state # "idle") =>
                LET e == exec'[p]
                    t == e.target
                IN  IF t.kind # "entity" \/ t.logicalName # "incident"
                    THEN Decided(e, "admitted", "", 0)
                    ELSE IF t.customerid.kind # "reference"
                    THEN Decided(e, "failed",
                                 "The Customer ID is required to create a case.", 0)
                    ELSE IF ActiveCases(t.customerid.id) # {}
                    THEN Decided(e, "failed",
                                 "A case for this customer is already active. Unable to create Case.",
                                 1)
                    ELSE Decided(e, "admitted", "", 1) ]_vars

\* C14 witness: customer c1 has a resolved case and no active one; one request
\* for c1 was admitted and created, and the next request for c1 failed as
\* already active.
C14_Witness ==
    /\ Len(incidents) = 2
    /\ incidents[1].customerid = "c1" /\ incidents[1].statecode # 0
    /\ incidents[2].customerid = "c1" /\ incidents[2].statecode = 0
    /\ exec[1].state = "created"
    /\ exec[1].target.customerid.id = "c1"
    /\ exec[2].state = "failed"
    /\ exec[2].error = "A case for this customer is already active. Unable to create Case."
    /\ exec[2].target.customerid.id = "c1"

\* C15: no customer has more than one active case.
C15_OneActiveCasePerCustomer ==
    \A c \in CustomerGuids : Cardinality(ActiveCases(c)) <= 1

\* The remote call of invocation i for this entity and identifier.
Lookup(entity, id) == [entity |-> entity, id |-> id]

\* C16: an invocation issues a remote call only in two kinds of step: its
\* first segment, with no call issued before, issues the account lookup; the
\* step in which its account lookup resolves with a linked contact identifier
\* issues the contact lookup for exactly that identifier. The call awaited
\* before the step is over when the next one is issued, so at most one call is
\* in flight, and there is at most one lookup of each kind.
C16_LookupsInOrder ==
    [][ \A i \in Invocations :
            calls'[i] # calls[i] =>
                \/ /\ pc[i] = "idle"
                   /\ calls[i] = <<>>
                   /\ pc'[i] = "awaitAccount"
                   /\ \E c \in CustomerValues :
                          /\ c.entityType = "account"
                          /\ calls'[i] = << Lookup("account", StripBraces(c.id)) >>
                \/ /\ pc[i] = "awaitAccount"
                   /\ Len(calls[i]) = 1
                   /\ branch'[i] = "primaryContact"
                   /\ pc'[i] = "awaitContact"
                   /\ PrimaryContactIdValue(calls[i][1].id) # NoId
                   /\ calls'[i] = Append(calls[i],
                                         Lookup("contact", PrimaryContactIdValue(calls[i][1].id))) ]_vars

\* C16 witness: an invocation has ended after both lookups, the contact
\* lookup having asked for the identifier the account held.
C16_Witness ==
    \E i \in Invocations :
        /\ pc[i] = "done"
        /\ Len(calls[i]) = 2
        /\ calls[i][1].entity = "account"
        /\ calls[i][2] = Lookup("contact", PrimaryContactIdValue(calls[i][1].id))

\* The number of setFieldVisibility calls of the invocations 1..n.
RECURSIVE Refreshes(_)
Refreshes(n) == IF n = 0 THEN 0 ELSE Polls(n) + Refreshes(n - 1)

\* The timers that have been cancelled.
CancelledTimers == {t \in DOMAIN timers : timers[t].cancels > 0}

\* The read passes made so far, counted over the timers in ts.
RECURSIVE ReadPasses(_)
ReadPasses(ts) ==
    IF ts = {} THEN 0
    ELSE LET t == CHOOSE u \in ts : TRUE
         IN  timers[t].reads + ReadPasses(ts \ {t})

\* C17: on a form with the quick view every setFieldVisibility call has
\* started a timer of its own; no timer is cancelled twice; the read passes
\* made are as many as the cancelled timers; a timer is active exactly as long
\* as it has not been cancelled; and a step never drops or replaces a timer.
C17_NoTimerLeak ==
    /\ [](/\ quickViewExists => Len(timers) = Refreshes(NumInvocations)
          /\ \A t \in DOMAIN timers :
                 /\ timers[t].cancels <= 1
                 /\ timers[t].active <=> timers[t].cancels = 0
          /\ ReadPasses(DOMAIN timers) = Cardinality(CancelledTimers))
    /\ [][ /\ Len(timers') >= Len(timers)
           /\ \A t \in DOMAIN timers :
                  /\ timers'[t].owner = timers[t].owner
                  /\ (timers[t].active /\ ~timers'[t].active) => isLoaded
           /\ \A t \in DOMAIN timers' \ DOMAIN timers : timers'[t] = NewTimer(timers'[t].owner)
         ]_vars

\* C17 witness: two invocations each started a poll, and every timer has been
\* cancelled once after its one read pass.
C17_Witness ==
    /\ \A i \in {1, 2} : TimersOf(i) # {}
    /\ \A t \in DOMAIN timers :
           ~timers[t].active /\ timers[t].cancels = 1 /\ timers[t].reads = 1
    /\ ReadPasses(DOMAIN timers) = Len(timers)

\* Timer t has been started.
Started(t) == t \in DOMAIN timers

\* Timer t reached Loaded: it is cancelled and its read pass has run.
Loaded(t) == Started(t) /\ ~timers[t].active /\ timers[t].cancels = 1 /\ timers[t].reads = 1

\* C18: with timers that keep ticking, if the quick view ends up loaded for
\* good, every timer started is eventually cancelled with its read pass made;
\* and there is no timeout: in a step that starts with the quick view not
\* loaded no timer is cancelled, no read pass is made, and the quick view's
\* visibility and NoContactDetails stay as they are, however many ticks were made.
C18_PollLiveness ==
    /\ \A t \in TimerIds : <>[]isLoaded => [](Started(t) => <>Loaded(t))
    /\ [][ ~isLoaded =>
               /\ \A t \in DOMAIN timers :
                      /\ timers'[t].active = timers[t].active
                      /\ timers'[t].cancels = timers[t].cancels
                      /\ timers'[t].reads = timers[t].reads
               /\ quickView' = quickView
               /\ ("NoContactDetails" \in notifications') <=> ("NoContactDetails" \in notifications)
         ]_vars

\* C18 witness: a timer still polls after MaxFalseTicks ticks that found the
\* quick view not loaded, and another timer has reached Loaded.
C18_Witness ==
    \E t, u \in DOMAIN timers :
        /\ timers[t].active /\ timers[t].falseTicks = MaxFalseTicks /\ timers[t].reads = 0
        /\ Loaded(u)

\* C19: the step in which an invocation takes the contact branch leaves
\* primarycontactid's value, every notification, the quick view with its
\* child fields, the timers and the remote calls as they are, and writes
\* nothing but the control's visibility and the attribute's requirement
\* level; customerid holds the contact the handler was called for, which on
\* form load is the value it held before.
C19_ContactBranchFrame ==
    [][ \A i \in Invocations :
            (branch[i] = "none" /\ branch'[i] = "contact") =>
                /\ contactValue' = contactValue
                /\ notifications' = notifications
                /\ quickView' = quickView
                /\ timers' = timers
                /\ calls' = calls
                /\ customer'.entityType = "contact"
                /\ i = 1 => customer' = customer
                /\ Only(log'[i], {"setValue", "setFieldVisibility"} \cup NotificationIds) = <<>>
                /\ \A j \in Invocations \ {i} : log'[j] = log[j] ]_vars

\* C19 witness: the first invocation ended with NoPrimaryContact active, the
\* control visible and required and the earlier contact still stored; then
\* the customer became a contact, and the second invocation hid the control
\* and made it optional with the value and the notification still there.
C19_Witness ==
    /\ Ended(1, "noPrimaryContact")
    /\ Ended(2, "contact")
    /\ controlExists /\ attributeExists
    /\ ~contactVisible /\ requiredLevel = "none"
    /\ contactValue = EarlierLookup
    /\ "NoPrimaryContact" \in notifications
    /\ customer.entityType = "contact"

\* C20: the step in which an invocation's account lookup resolves shows the
\* primary contact control and makes it required whatever customerid holds
\* by then, a contact included; nothing compares the response with the
\* current customer.
C20_StaleAccountResponseShowsControl ==
    [][ \A i \in Invocations :
            (pc[i] = "awaitAccount" /\ branch'[i] \in {"primaryContact", "noPrimaryContact"}) =>
                /\ controlExists => contactVisible'
                /\ attributeExists => requiredLevel' = "required" ]_vars

\* C20 witness: the customer was changed from an account to a contact while
\* the account lookup was in flight; the second invocation hid the control,
\* then the lookup resolved, and with both invocations ended the customer is a
\* contact while the control is visible and required.
C20_Witness ==
    /\ Ended(1, "noPrimaryContact")
    /\ Ended(2, "contact")
    /\ customer.entityType = "contact"
    /\ controlExists /\ attributeExists
    /\ contactVisible /\ requiredLevel = "required"
    /\ log[2] = <<"setVisible", "setRequiredLevel">>

\* The primary contact control is hidden while the attribute is required.
HiddenAndRequired == ~contactVisible /\ requiredLevel = "required"

\* C21: on a form that holds the control and the attribute and does not start
\* hidden and required, the control is hidden and required in no state between
\* two segments, whatever invocations overlap and however their lookups end.
C21_NeverHiddenAndRequired ==
    (controlExists /\ attributeExists /\ ~HiddenAndRequired) => []~HiddenAndRequired

\* C21 witness: on such a form the first invocation's account lookup resolved
\* after the second invocation had hidden the control for a contact, and its
\* contact lookup then failed; the control is visible and required.
C21_Witness ==
    /\ controlExists /\ attributeExists
    /\ Ended(1, "contactRejected")
    /\ Ended(2, "contact")
    /\ log[1] = <<"setVisible", "setRequiredLevel", "ContactError", "setFieldVisibility">>
    /\ contactVisible /\ requiredLevel = "required"

\* Invocation i called setFieldVisibility and wrote primarycontactid later.
RefreshThenWrite(i) ==
    \E k, m \in DOMAIN log[i] :
        /\ k < m
        /\ log[i][k] = "setFieldVisibility"
        /\ log[i][m] = "setValue"

\* C22: a timer has made no read pass in the step that starts it; and in the
\* step in which a timer of an invocation makes its read pass, the invocation
\* has already written primarycontactid, after its call of setFieldVisibility:
\* the contact of the lookup when the contact lookup resolved, null when no
\* customer was selected.
C22_ReadPassAfterWrite ==
    [][ /\ \A t \in DOMAIN timers' \ DOMAIN timers : timers'[t].reads = 0
        /\ \A t \in DOMAIN timers :
               (timers'[t].reads > timers[t].reads /\ attributeExists) =>
                   LET i == timers[t].owner
                   IN  /\ branch[i] = "contactResolved" =>
                              /\ RefreshThenWrite(i)
                              /\ contactValue = ContactLookup(calls[i][2].id)
                       /\ branch[i] = "noCustomer" =>
                              /\ RefreshThenWrite(i)
                              /\ contactValue = NullLookup ]_vars

\* C22 witness: the contact lookup resolved, setFieldVisibility ran before
\* the write of the contact, and the timer it started has made its read pass
\* with the contact stored.
C22_Witness ==
    /\ Ended(1, "contactResolved")
    /\ attributeExists
    /\ log[1][Len(log[1]) - 1] = "setFieldVisibility"
    /\ log[1][Len(log[1])] = "setValue"
    /\ contactValue = ContactLookup(calls[1][2].id)
    /\ \E t \in TimersOf(1) : timers[t].reads = 1
    /\ quickView.email # Unread

\* C23: an invocation calls setFieldVisibility at most once and so starts at
\* most one timer.
C23_AtMostOnePoll ==
    \A i \in Invocations :
        /\ Polls(i) <= 1
        /\ Cardinality(TimersOf(i)) <= 1

\* The characters of id that are no brackets, in their order.
RECURSIVE Unbracketed(_)
Unbracketed(id) ==
    IF id = <<>> THEN <<>>
    ELSE IF Head(id) = "{" \/ Head(id) = "}"
         THEN Unbracketed(Tail(id))
         ELSE <<Head(id)>> \o Unbracketed(Tail(id))

\* id holds a bracket.
HasBracket(id) == \E k \in DOMAIN id : id[k] = "{" \/ id[k] = "}"

\* C24: the identifier of the account lookup is the customer's identifier
\* with every bracket removed and the other characters kept in order; an
\* identifier without brackets is passed as it is; and normalizing the
\* identifier passed gives the same identifier again.
C24_IdNormalized ==
    \A i \in Invocations :
        (calls[i] # <<>> /\ calls[i][1].entity = "account") =>
            LET used == calls[i][1].id
            IN  /\ ~HasBracket(used)
                /\ used = Unbracketed(customer.id)
                /\ ~HasBracket(customer.id) => used = customer.id
                /\ StripBraces(used) = used

\* C24 witness: an identifier in brackets was looked up without them.
C24_Witness ==
    /\ customer.id = <<"{", "A", "}">>
    /\ calls[1] = << Lookup("account", <<"A">>) >>
    /\ pc[1] = "awaitAccount"

====
